---- MODULE Spec2Model ----
(***************************************************************************)
(* One-way folder synchronisation (src/sync_folders.py).                   *)
(*                                                                         *)
(* The filesystem is one function fs from the paths that exist to their    *)
(* entries.  A path is a sequence of names; the source root is <<"S">> and *)
(* the replica root is <<"R">>.  The program is the main loop of main(),   *)
(* synch_folders and the two recursive traversals copy_to_replica and      *)
(* remove_from_replica, run as a stack of frames, one step per filesystem  *)
(* call, so that other processes can act between two calls.                *)
(***************************************************************************)
EXTENDS Integers, Sequences, FiniteSets, TLC

VARIABLES fs, pc, stack, plan, passes, log, cycle, exit_code, start, env, clean

vars == <<fs, pc, stack, plan, passes, log, cycle, exit_code, start, env, clean>>

(***************************************************************************)
(* Bounds of the model.                                                    *)
(***************************************************************************)
Names == {"a", "b"}
MaxEntries == 3
MaxUnreadable == 1
MaxCycles == 2
MaxExternal == 1
MaxDenied == 1

SourceRoot == <<"S">>
ReplicaRoot == <<"R">>
StopName == "stop_sync.txt"

(***************************************************************************)
(* Entries and paths.                                                      *)
(***************************************************************************)
Contents == {1, 2, 3}

\* st_size of a regular file: contents 1 and 2 have the same size, 3 is longer,
\* so that filecmp.cmp meets both a size difference and a byte difference
Size(c) == (c + 1) \div 2

File(c, r) == [kind |-> "file", content |-> c, readable |-> r]

Dir == [kind |-> "dir", content |-> 0, readable |-> TRUE]

Join(p, n) == Append(p, n)

Basename(p) == p[Len(p)]

Parent(p) == SubSeq(p, 1, Len(p) - 1)

IsPrefix(p, q) == Len(p) <= Len(q) /\ SubSeq(q, 1, Len(p)) = p

Rebase(x, src, dst) == dst \o SubSeq(x, Len(src) + 1, Len(x))

Exists(f, p) == p \in DOMAIN f

IsFile(f, p) == p \in DOMAIN f /\ f[p].kind = "file"

IsDir(f, p) == p \in DOMAIN f /\ f[p].kind = "dir"

ListDir(f, p) == {x[Len(p) + 1] : x \in {y \in DOMAIN f : Len(y) = Len(p) + 1 /\ IsPrefix(p, y)}}

Under(f, p) == {x \in DOMAIN f : IsPrefix(p, x)}

Restrict(f, S) == [x \in S |-> f[x]]

Write(f, p, e) == [x \in (DOMAIN f) \cup {p} |-> IF x = p THEN e ELSE f[x]]

(***************************************************************************)
(* The library calls the program makes, as functions of the filesystem.    *)
(* Each returns the new filesystem and whether the call raised.            *)
(***************************************************************************)

\* shutil.copy2(src, dst): a directory dst means dst/basename(src)
Copy2Target(f, src, dst) == IF IsDir(f, dst) THEN Join(dst, Basename(src)) ELSE dst

\* a faulty variant: the two paths exchanged
Copy2SwappedArgs(f, src, dst) ==
  LET ok == IsFile(f, dst) /\ f[dst].readable /\ IsDir(f, Parent(src)) /\ ~IsDir(f, src)
  IN  [fs |-> IF ok THEN Write(f, src, File(f[dst].content, TRUE)) ELSE f,
       ok |-> ok, target |-> src]

Copy2(f, src, dst) ==
  LET target == Copy2Target(f, src, dst)
      ok == /\ IsFile(f, src)
            /\ f[src].readable
            /\ IsDir(f, Parent(target))
            /\ ~IsDir(f, target)
  IN  [fs |-> IF ok THEN Write(f, target, File(f[src].content, TRUE)) ELSE f,
       ok |-> ok, target |-> target]

\* shutil.copytree(src, dst): dst must not exist; an unreadable file is skipped,
\* the rest is copied and shutil.Error is raised at the end
CopyTree(f, src, dst) ==
  LET can == IsDir(f, src) /\ ~Exists(f, dst) /\ IsDir(f, Parent(dst))
      copied == {x \in Under(f, src) : f[x].readable}
      new == {Rebase(x, src, dst) : x \in copied}
      g == [y \in (DOMAIN f) \cup new |->
              IF y \in new
              THEN LET x == src \o SubSeq(y, Len(dst) + 1, Len(y))
                   IN  IF f[x].kind = "dir" THEN Dir ELSE File(f[x].content, TRUE)
              ELSE f[y]]
  IN  [fs |-> IF can THEN g ELSE f,
       ok |-> can /\ copied = Under(f, src), target |-> dst]

\* os.remove(path)
OsRemove(f, p) ==
  [fs |-> IF IsFile(f, p) THEN Restrict(f, (DOMAIN f) \ {p}) ELSE f,
   ok |-> IsFile(f, p), target |-> p]

\* shutil.rmtree(path)
RmTree(f, p) ==
  [fs |-> IF IsDir(f, p) THEN Restrict(f, (DOMAIN f) \ Under(f, p)) ELSE f,
   ok |-> IsDir(f, p), target |-> p]

\* filecmp.cmp(a, b, shallow=False): os.stat of both, the type and size tests,
\* then the byte comparison, which opens both files
FileCmp(f, a, b) ==
  IF ~Exists(f, a) \/ ~Exists(f, b) THEN "raise"
  ELSE IF f[a].kind # "file" \/ f[b].kind # "file" THEN "differ"
  ELSE IF Size(f[a].content) # Size(f[b].content) THEN "differ"
  ELSE IF ~f[a].readable \/ ~f[b].readable THEN "raise"
  ELSE IF f[a].content = f[b].content THEN "same" ELSE "differ"

\* faulty variants: a comparison that never sees, or always sees, a difference
is_same_file_always_true(f, a, b) == "same"

is_same_file_never(f, a, b) == "differ"

\* lines 260-267: no try/except, so "raise" reaches the caller
is_same_file(f, a, b) == FileCmp(f, a, b)

\* lines 105-111
is_folder_empty(f, p) == ListDir(f, p) = {}

(***************************************************************************)
(* The program's helpers: each wraps one library call in try/except and    *)
(* logs the outcome, so none of them raises.                               *)
(***************************************************************************)
Event(op, path, res, pass) ==
  [op |-> op, path |-> path, target |-> res.target, ok |-> res.ok, pass |-> pass]

copy_file(f, source_path, replica_path) == Copy2(f, source_path, replica_path)

copy_directory(f, source_path, replica_path) == CopyTree(f, source_path, replica_path)

remove_file(f, path) == OsRemove(f, path)

remove_directory(f, path) == RmTree(f, path)

(***************************************************************************)
(* Frames of the two traversals.  at names the line of the pending call of *)
(* the current entry, "loop" the head of the for loop.                     *)
(***************************************************************************)
Frame(fn, sp, rp, todo) ==
  [fn |-> fn, sp |-> sp, rp |-> rp, todo |-> todo, cur |-> "", at |-> "loop"]

Top == Head(stack)

Src == Join(Top.sp, Top.cur)

Rpl == Join(Top.rp, Top.cur)

SetTop(fr) == <<fr>> \o Tail(stack)

Goto(label) == SetTop([Top EXCEPT !.at = label])

Running == pc = "cycle" /\ stack # <<>>

\* lines 171-195: the branch of copy_to_replica taken for one source entry
CopyBranch(f, s, r) ==
  IF ~Exists(f, r)
  THEN IF IsFile(f, s) THEN "L173" ELSE IF IsDir(f, s) THEN "L176" ELSE "loop"
  ELSE IF IsFile(f, s)
  THEN IF IsFile(f, r) THEN "L180" ELSE IF IsDir(f, r) THEN "L185" ELSE "loop"
  ELSE IF IsDir(f, s)
  THEN IF IsDir(f, r) THEN "L191" ELSE IF IsFile(f, r) THEN "L194" ELSE "loop"
  ELSE "loop"

\* lines 245-254: the branch of remove_from_replica taken for one replica entry
RemoveBranch(f, s, r) ==
  IF ~Exists(f, s) /\ IsFile(f, r) THEN "L246"
  ELSE IF ~Exists(f, s) /\ IsDir(f, r) THEN "L249"
  ELSE IF Exists(f, s) /\ IsDir(f, r) THEN "L254"
  ELSE "loop"

\* a faulty variant: an empty source ends the cycle at once
PassesSourceEmptyNoop(f) ==
  IF is_folder_empty(f, SourceRoot) THEN <<>>
  ELSE IF is_folder_empty(f, ReplicaRoot) THEN <<"copy">>
  ELSE <<"copy", "remove">>

\* lines 280-292: the passes synch_folders runs
Passes(f) ==
  IF is_folder_empty(f, SourceRoot) /\ is_folder_empty(f, ReplicaRoot) THEN <<>>
  ELSE IF is_folder_empty(f, SourceRoot) /\ ~is_folder_empty(f, ReplicaRoot) THEN <<"remove">>
  ELSE IF ~is_folder_empty(f, SourceRoot) /\ is_folder_empty(f, ReplicaRoot) THEN <<"copy">>
  ELSE <<"copy", "remove">>

\* line 310, 314
stop_path == Join(SourceRoot, StopName)

\* a faulty variant: the stop file is never seen
StoppedNever(f) == FALSE

Stopped(f) == Exists(f, stop_path)

(***************************************************************************)
(* Initial filesystems: the two roots with at most MaxEntries entries      *)
(* below them in all, every file readable.                                 *)
(***************************************************************************)
NewEntries == {Dir} \cup {File(c, TRUE) : c \in Contents}

Roots == [x \in {SourceRoot, ReplicaRoot} |-> Dir]

Grow(t) ==
  UNION {{Write(t, Join(x[1], x[2]), e) : e \in NewEntries} :
           x \in {y \in (DOMAIN t) \X Names :
                    IsDir(t, y[1]) /\ Join(y[1], y[2]) \notin DOMAIN t}}

RECURSIVE Filesystems(_)
Filesystems(n) ==
  IF n = 0 THEN {Roots}
  ELSE LET T == Filesystems(n - 1) IN T \cup UNION {Grow(t) : t \in T}

Unreadable(f) == {x \in DOMAIN f : ~f[x].readable}

\* chmod a-r on the files of U
Protect(f, U) == [x \in DOMAIN f |-> IF x \in U THEN File(f[x].content, FALSE) ELSE f[x]]

InitWith(f) ==
  /\ fs = f
  /\ pc = "top"
  /\ stack = <<>>
  /\ plan = <<>>
  /\ passes = <<>>
  /\ log = <<>>
  /\ cycle = 0
  /\ exit_code = -1
  /\ start = f
  /\ env = [external |-> 0, denied |-> 0]
  /\ clean = FALSE

Init ==
  \E f \in Filesystems(MaxEntries), stop \in BOOLEAN :
    InitWith(IF stop THEN Write(f, stop_path, File(1, TRUE)) ELSE f)

(***************************************************************************)
(* main(): lines 312-322.                                                  *)
(***************************************************************************)
\* lines 314-316
StopSignal ==
  /\ pc = "top"
  /\ Stopped(fs)
  /\ pc' = "exited"
  /\ exit_code' = 0
  /\ UNCHANGED <<fs, stack, plan, passes, log, cycle, start, env, clean>>

\* lines 318-319 and 280-292: a cycle starts and synch_folders picks its passes
synch_folders ==
  /\ pc = "top"
  /\ ~Stopped(fs)
  /\ cycle < MaxCycles
  /\ pc' = "cycle"
  /\ cycle' = cycle + 1
  /\ plan' = Passes(fs)
  /\ passes' = <<>>
  /\ log' = <<>>
  /\ start' = fs
  /\ clean' = (cycle > 0 /\ \A i \in DOMAIN log : log[i].ok)
  /\ UNCHANGED <<fs, stack, exit_code, env>>

\* lines 284, 288, 291, 292 with 165-166, 240: the call of a pass on the roots
RunPass ==
  /\ pc = "cycle"
  /\ stack = <<>>
  /\ plan # <<>>
  /\ stack' = <<Frame(Head(plan), SourceRoot, ReplicaRoot,
                      IF Head(plan) = "copy" THEN ListDir(fs, SourceRoot)
                      ELSE ListDir(fs, ReplicaRoot))>>
  /\ plan' = Tail(plan)
  /\ UNCHANGED <<fs, pc, passes, log, cycle, exit_code, start, env, clean>>

\* lines 320-322
FinishCycle ==
  /\ pc = "cycle"
  /\ stack = <<>>
  /\ plan = <<>>
  /\ pc' = "sleep"
  /\ UNCHANGED <<fs, stack, plan, passes, log, cycle, exit_code, start, env, clean>>

\* line 322, back to line 312
WakeUp ==
  /\ pc = "sleep"
  /\ pc' = "top"
  /\ UNCHANGED <<fs, stack, plan, passes, log, cycle, exit_code, start, env, clean>>

(***************************************************************************)
(* copy_to_replica and remove_from_replica: lines 154-195 and 232-257.     *)
(***************************************************************************)
\* lines 167-171, 172, 175, 178-179, 183, 188-189, 192: the next source entry
\* is taken from the listing and its branch chosen
CopyLoop ==
  /\ Running
  /\ Top.fn = "copy"
  /\ Top.at = "loop"
  /\ \E n \in Top.todo :
       stack' = SetTop([Top EXCEPT !.todo = Top.todo \ {n}, !.cur = n,
                          !.at = CopyBranch(fs, Join(Top.sp, n), Join(Top.rp, n))])
  /\ UNCHANGED <<fs, pc, plan, passes, log, cycle, exit_code, start, env, clean>>

\* lines 241-245, 248, 251: the next replica entry and its branch
RemoveLoop ==
  /\ Running
  /\ Top.fn = "remove"
  /\ Top.at = "loop"
  /\ \E n \in Top.todo :
       stack' = SetTop([Top EXCEPT !.todo = Top.todo \ {n}, !.cur = n,
                          !.at = RemoveBranch(fs, Join(Top.sp, n), Join(Top.rp, n))])
  /\ UNCHANGED <<fs, pc, plan, passes, log, cycle, exit_code, start, env, clean>>

\* lines 173, 182, 186: copy_file(file_path_src, file_path_rpl, logger)
CopyFileStep ==
  /\ Running
  /\ Top.at \in {"L173", "L182", "L186"}
  /\ LET res == copy_file(fs, Src, Rpl)
     IN  /\ fs' = res.fs
         /\ log' = Append(log, Event("copy_file", Src, res, Top.fn))
  /\ stack' = Goto("loop")
  /\ UNCHANGED <<pc, plan, passes, cycle, exit_code, start, env, clean>>

\* lines 176, 195: copy_directory(file_path_src, file_path_rpl, logger)
CopyDirectoryStep ==
  /\ Running
  /\ Top.at \in {"L176", "L195"}
  /\ LET res == copy_directory(fs, Src, Rpl)
     IN  /\ fs' = res.fs
         /\ log' = Append(log, Event("copy_directory", Src, res, Top.fn))
  /\ stack' = Goto("loop")
  /\ UNCHANGED <<pc, plan, passes, cycle, exit_code, start, env, clean>>

\* line 180: is_same_file, whose exception nothing catches
CompareStep ==
  /\ Running
  /\ Top.at = "L180"
  /\ LET c == is_same_file(fs, Src, Rpl)
     IN  IF c = "raise"
         THEN /\ pc' = "crashed"
              /\ exit_code' = 1
              /\ UNCHANGED stack
         ELSE /\ stack' = Goto(IF c = "same" THEN "loop" ELSE "L182")
              /\ UNCHANGED <<pc, exit_code>>
  /\ UNCHANGED <<fs, plan, passes, log, cycle, start, env, clean>>

\* lines 185, 249: remove_directory(file_path_rpl, logger)
RemoveDirectoryStep ==
  /\ Running
  /\ Top.at \in {"L185", "L249"}
  /\ LET res == remove_directory(fs, Rpl)
     IN  /\ fs' = res.fs
         /\ log' = Append(log, Event("remove_directory", Rpl, res, Top.fn))
  /\ stack' = Goto(IF Top.at = "L185" THEN "L186" ELSE "loop")
  /\ UNCHANGED <<pc, plan, passes, cycle, exit_code, start, env, clean>>

\* lines 194, 246: remove_file(file_path_rpl, logger)
RemoveFileStep ==
  /\ Running
  /\ Top.at \in {"L194", "L246"}
  /\ LET res == remove_file(fs, Rpl)
     IN  /\ fs' = res.fs
         /\ log' = Append(log, Event("remove_file", Rpl, res, Top.fn))
  /\ stack' = Goto(IF Top.at = "L194" THEN "L195" ELSE "loop")
  /\ UNCHANGED <<pc, plan, passes, cycle, exit_code, start, env, clean>>

\* lines 191 with 165-166, 254 with 240: the recursive call lists its
\* directories, and nothing catches the exception of os.listdir
Recurse ==
  /\ Running
  /\ Top.at \in {"L191", "L254"}
  /\ LET listed == IF Top.at = "L191" THEN IsDir(fs, Src) /\ IsDir(fs, Rpl)
                   ELSE IsDir(fs, Rpl)
         todo == IF Top.at = "L191" THEN ListDir(fs, Src) ELSE ListDir(fs, Rpl)
     IN  IF listed
         THEN /\ stack' = <<Frame(Top.fn, Src, Rpl, todo)>> \o Goto("loop")
              /\ UNCHANGED <<pc, exit_code>>
         ELSE /\ pc' = "crashed"
              /\ exit_code' = 1
              /\ UNCHANGED stack
  /\ UNCHANGED <<fs, plan, passes, log, cycle, start, env, clean>>

\* the end of the for loop (line 195, line 257): the call returns
Return ==
  /\ Running
  /\ Top.at = "loop"
  /\ Top.todo = {}
  /\ stack' = Tail(stack)
  /\ passes' = IF Len(stack) = 1 THEN Append(passes, Top.fn) ELSE passes
  /\ UNCHANGED <<fs, pc, plan, log, cycle, exit_code, start, env, clean>>

(***************************************************************************)
(* The environment: denied removals and another process removing entries   *)
(* or creating the stop file while a cycle runs or the program sleeps.     *)
(***************************************************************************)
Denied(f, p) == [fs |-> f, ok |-> FALSE, target |-> p]

\* shutil.rmtree raises PermissionError (caught at lines 224-225): either
\* nothing was removed, or the contents were and the directory itself stays
RemoveDirectoryDenied ==
  /\ Running
  /\ Top.at \in {"L185", "L249"}
  /\ IsDir(fs, Rpl)
  /\ env.denied < MaxDenied
  /\ \E emptied \in BOOLEAN :
       fs' = IF emptied THEN Restrict(fs, (DOMAIN fs) \ (Under(fs, Rpl) \ {Rpl})) ELSE fs
  /\ log' = Append(log, Event("remove_directory", Rpl, Denied(fs, Rpl), Top.fn))
  /\ stack' = Goto(IF Top.at = "L185" THEN "L186" ELSE "loop")
  /\ env' = [env EXCEPT !.denied = @ + 1]
  /\ UNCHANGED <<pc, plan, passes, cycle, exit_code, start, clean>>

\* os.remove raises PermissionError (caught at lines 208-209)
RemoveFileDenied ==
  /\ Running
  /\ Top.at \in {"L194", "L246"}
  /\ IsFile(fs, Rpl)
  /\ env.denied < MaxDenied
  /\ log' = Append(log, Event("remove_file", Rpl, Denied(fs, Rpl), Top.fn))
  /\ stack' = Goto(IF Top.at = "L194" THEN "L195" ELSE "loop")
  /\ env' = [env EXCEPT !.denied = @ + 1]
  /\ UNCHANGED <<fs, pc, plan, passes, cycle, exit_code, start, clean>>

\* another process removes an entry, with all below it
ExternalRemove ==
  /\ pc = "cycle"
  /\ env.external < MaxExternal
  /\ \E p \in DOMAIN fs :
       /\ Len(p) > 1
       /\ fs' = Restrict(fs, (DOMAIN fs) \ Under(fs, p))
  /\ env' = [env EXCEPT !.external = @ + 1]
  /\ UNCHANGED <<pc, stack, plan, passes, log, cycle, exit_code, start, clean>>

\* the user creates the stop file
ExternalStop ==
  /\ pc \in {"cycle", "sleep"}
  /\ ~Exists(fs, stop_path)
  /\ fs' = Write(fs, stop_path, File(1, TRUE))
  /\ UNCHANGED <<pc, stack, plan, passes, log, cycle, exit_code, start, env, clean>>

(***************************************************************************)
(* Specifications.                                                         *)
(***************************************************************************)
Program ==
  \/ StopSignal
  \/ synch_folders
  \/ RunPass
  \/ FinishCycle
  \/ WakeUp
  \/ CopyLoop
  \/ RemoveLoop
  \/ CopyFileStep
  \/ CopyDirectoryStep
  \/ CompareStep
  \/ RemoveDirectoryStep
  \/ RemoveFileStep
  \/ Recurse
  \/ Return

Next == Program

\* the program alone: every file readable, no call denied, nobody else acts
Spec == Init /\ [][Next]_vars

InitFail ==
  \E f \in Filesystems(MaxEntries), stop \in BOOLEAN :
    \E U \in SUBSET {x \in DOMAIN f : IsFile(f, x)} :
      /\ Cardinality(U) <= MaxUnreadable
      /\ InitWith(IF stop THEN Write(Protect(f, U), stop_path, File(1, TRUE))
                  ELSE Protect(f, U))

NextFail == Program \/ RemoveDirectoryDenied \/ RemoveFileDenied

\* the program where files may be unreadable and removals may be denied
SpecFail == InitFail /\ [][NextFail]_vars

NextEnv == Program \/ ExternalRemove

\* the program next to another process that removes entries
SpecEnv == Init /\ [][NextEnv]_vars

NextStop == Program \/ ExternalStop

\* the program and a user who creates the stop file at any time
SpecStop == Init /\ [][NextStop]_vars

(***************************************************************************)
(* The two traversals as functions of the filesystem: what a call returns  *)
(* when it runs alone (lines 154-195, 232-257).  They are used where       *)
(* is_same_file cannot raise; an entry whose comparison would raise is     *)
(* left as it is.                                                          *)
(***************************************************************************)
RECURSIVE CopyEntries(_, _, _, _)
CopyEntries(f, sp, rp, names) ==
  IF names = {} THEN f
  ELSE LET n == CHOOSE x \in names : TRUE
           s == Join(sp, n)
           r == Join(rp, n)
           b == CopyBranch(f, s, r)
           g == CASE b = "L173" -> copy_file(f, s, r).fs
                  [] b = "L176" -> copy_directory(f, s, r).fs
                  [] b = "L180" -> IF is_same_file(f, s, r) = "differ"
                                   THEN copy_file(f, s, r).fs ELSE f
                  [] b = "L185" -> copy_file(remove_directory(f, r).fs, s, r).fs
                  [] b = "L191" -> CopyEntries(f, s, r, ListDir(f, s))
                  [] b = "L194" -> copy_directory(remove_file(f, r).fs, s, r).fs
                  [] OTHER -> f
       IN  CopyEntries(g, sp, rp, names \ {n})

copy_to_replica(f, source_path, replica_path) ==
  CopyEntries(f, source_path, replica_path, ListDir(f, source_path))

RECURSIVE RemoveEntries(_, _, _, _)
RemoveEntries(f, sp, rp, names) ==
  IF names = {} THEN f
  ELSE LET n == CHOOSE x \in names : TRUE
           s == Join(sp, n)
           r == Join(rp, n)
           b == RemoveBranch(f, s, r)
           g == CASE b = "L246" -> remove_file(f, r).fs
                  [] b = "L249" -> remove_directory(f, r).fs
                  [] b = "L254" -> RemoveEntries(f, s, r, ListDir(f, r))
                  [] OTHER -> f
       IN  RemoveEntries(g, sp, rp, names \ {n})

remove_from_replica(f, source_path, replica_path) ==
  RemoveEntries(f, source_path, replica_path, ListDir(f, replica_path))

\* lines 291-292
GeneralCase(f) ==
  remove_from_replica(copy_to_replica(f, SourceRoot, ReplicaRoot), SourceRoot, ReplicaRoot)

(***************************************************************************)
(* Vocabulary of the properties.                                           *)
(***************************************************************************)
Mirror(p) == Rebase(p, SourceRoot, ReplicaRoot)

ToSource(q) == Rebase(q, ReplicaRoot, SourceRoot)

SourceTree(f) == Restrict(f, Under(f, SourceRoot))

ReplicaTree(f) == Restrict(f, Under(f, ReplicaRoot))

CycleOver == pc \in {"sleep", "top", "exited"} /\ cycle > 0

NoFailure == \A i \in DOMAIN log : log[i].ok

Failures == {i \in DOMAIN log : ~log[i].ok}

(***************************************************************************)
(* Properties.                                                             *)
(***************************************************************************)

\* C1 (Convergence): when a cycle in which no operation failed is over, every
\* path of the source exists in the replica with the same kind and, for a
\* file, the same content, and every path the replica alone had at the start
\* of the cycle is gone.
C1_Convergence ==
  (CycleOver /\ NoFailure) =>
    /\ \A p \in Under(fs, SourceRoot) :
         /\ Exists(fs, Mirror(p))
         /\ fs[Mirror(p)].kind = fs[p].kind
         /\ fs[Mirror(p)].content = fs[p].content
    /\ \A q \in Under(start, ReplicaRoot) :
         ~Exists(start, ToSource(q)) => ~Exists(fs, q)

\* a finished cycle that began with a source file facing a replica directory
\* with nested content
C1_Witness ==
  /\ pc = "sleep"
  /\ NoFailure
  /\ \E p \in Under(start, SourceRoot) :
       /\ IsFile(start, p)
       /\ IsDir(start, Mirror(p))
       /\ Under(start, Mirror(p)) # {Mirror(p)}

\* C2 (Idempotence): a cycle that follows a cycle without failure, the source
\* unchanged in between, performs no copy, overwrite or remove: its log stays
\* empty and the filesystem is the one it started from.
C2_Idempotence == (cycle >= 2 /\ clean) => (log = <<>> /\ fs = start)

\* a second cycle that ran both passes to their end over a source with a file
\* and a directory
C2_Witness ==
  /\ cycle = 2
  /\ clean
  /\ pc = "sleep"
  /\ passes = <<"copy", "remove">>
  /\ \E p, q \in Under(fs, SourceRoot) : Len(p) > 1 /\ IsFile(fs, p) /\ Len(q) > 1 /\ IsDir(fs, q)

\* C9 (Fast-path equivalence): when a cycle that began with an empty source
\* root or an empty replica root is over, the filesystem is the one that
\* copy_to_replica followed by remove_from_replica produce from the same start;
\* an empty source leaves the replica empty.
C9_FastPathEquivalence ==
  (CycleOver /\ (is_folder_empty(start, SourceRoot) \/ is_folder_empty(start, ReplicaRoot))) =>
    /\ fs = GeneralCase(start)
    /\ is_folder_empty(start, SourceRoot) => is_folder_empty(fs, ReplicaRoot)

\* a finished cycle that began with an empty source and a replica holding a
\* non-empty directory
C9_Witness ==
  /\ pc = "sleep"
  /\ cycle = 1
  /\ is_folder_empty(start, SourceRoot)
  /\ \E q \in Under(start, ReplicaRoot) : Len(q) > 2

\* a finished cycle that began with an empty replica and a non-empty source
C9_WitnessClone ==
  /\ pc = "sleep"
  /\ cycle = 1
  /\ is_folder_empty(start, ReplicaRoot)
  /\ \E p \in Under(start, SourceRoot) : Len(p) > 2

\* the stack machine and the functions agree on every cycle of the program alone
SequentialAgreement == (CycleOver /\ NoFailure) => fs = GeneralCase(start)

CopyOps == {"copy_file", "copy_directory"}

\* C3 (Non-fatal isolation): when exactly one file is unreadable and it sits in
\* a directory d of the source, the first cycle does not abort whatever the
\* replica holds and, once over, has put every other file of d into the replica
\* with the source's content and has logged exactly one failure.
C3_NonFatalIsolation ==
  \A u \in Under(start, SourceRoot) :
    (cycle = 1 /\ env.denied = 0 /\ Unreadable(start) = {u}) =>
      /\ pc # "crashed"
      /\ CycleOver =>
           /\ \A n \in ListDir(start, Parent(u)) :
                LET p == Join(Parent(u), n)
                IN  (IsFile(start, p) /\ p # u) =>
                      (IsFile(fs, Mirror(p)) /\ fs[Mirror(p)].content = start[p].content)
           /\ Cardinality(Failures) = 1

\* C3 without its first conjunct: what holds of the cycles that do reach their end
C3_WhenNotAborted ==
  \A u \in Under(start, SourceRoot) :
    (cycle = 1 /\ env.denied = 0 /\ Unreadable(start) = {u} /\ CycleOver) =>
      /\ \A n \in ListDir(start, Parent(u)) :
           LET p == Join(Parent(u), n)
           IN  (IsFile(start, p) /\ p # u) =>
                 (IsFile(fs, Mirror(p)) /\ fs[Mirror(p)].content = start[p].content)
      /\ Cardinality(Failures) = 1

\* C4 (Comparison failure is not-equal): when is_same_file is called on two
\* regular files of which one is unreadable, the cycle is not aborted: the
\* program goes on to the copy of line 182.
C4_CompareFailureIsNotEqual ==
  (/\ stack # <<>>
   /\ Top.at = "L180"
   /\ IsFile(fs, Src)
   /\ IsFile(fs, Rpl)
   /\ (~fs[Src].readable \/ ~fs[Rpl].readable)) => pc # "crashed"

\* C6 (Source unchanged): whatever the program does, and whether or not a call
\* fails, the tree under the source root is the one the cycle started with.
C6_SourceUnchanged == SourceTree(fs) = SourceTree(start)

\* a finished cycle that copied, removed and had a call fail
C6_Witness ==
  /\ pc = "sleep"
  /\ \E i, j, k \in DOMAIN log :
       /\ log[i].op \in CopyOps /\ log[i].ok
       /\ log[j].op \notin CopyOps /\ log[j].ok
       /\ ~log[k].ok

\* C7 (Ordering): in the general case the first step of remove_from_replica
\* comes after the whole of copy_to_replica, and the pruner removes nothing
\* that the forward pass of the same cycle created or overwrote.
C7_Ordering ==
  /\ (Running /\ Top.fn = "remove" /\ Passes(start) = <<"copy", "remove">>) =>
       passes = <<"copy">>
  /\ \A i, j \in DOMAIN log :
       (/\ log[i].pass = "copy" /\ log[i].op \in CopyOps /\ log[i].ok
        /\ log[j].pass = "remove" /\ log[j].ok) =>
         ~IsPrefix(log[j].target, log[i].target)

\* C10 (Writes stay on the source's shape): every file or directory the forward
\* pass has created or overwritten sits at a path that is an entry of the same
\* kind in the source.
C10_WritesMatchSource ==
  \A i \in DOMAIN log :
    (log[i].pass = "copy" /\ log[i].op \in CopyOps /\ log[i].ok) =>
      LET p == ToSource(log[i].target)
      IN  /\ Exists(start, p)
          /\ start[p].kind = (IF log[i].op = "copy_file" THEN "file" ELSE "dir")

\* C8 (External removal): an entry removed by another process while a cycle
\* runs never aborts the cycle.
C8_ExternalRemovalIsNonFatal == env.external > 0 => pc # "crashed"

\* C5 (Stop-signal precedence): with the stop file present at the top of the
\* loop the next step is the exit with status 0 and touches neither the
\* filesystem nor the log; the exit happens only there, so the stop file never
\* cuts a cycle short: whenever the program is back at the top of the loop or
\* has exited, every pass the cycle had to run has run to its end.
C5_StopSignalPrecedence ==
  /\ [][(pc = "top" /\ Exists(fs, stop_path)) =>
          (pc' = "exited" /\ exit_code' = 0 /\ fs' = fs /\ log' = log /\ cycle' = cycle)]_vars
  /\ [](pc = "exited" => (exit_code = 0 /\ Exists(fs, stop_path)))
  /\ []((pc \in {"top", "exited"} /\ cycle > 0) =>
          (stack = <<>> /\ plan = <<>> /\ passes = Passes(start)))

\* the stop file appeared while the first cycle ran, early enough to be copied:
\* both passes ran to their end and the program exited at the next check
C5_Witness ==
  /\ pc = "exited"
  /\ exit_code = 0
  /\ cycle = 1
  /\ passes = <<"copy", "remove">>
  /\ Exists(fs, Join(ReplicaRoot, StopName))

====
